---- MODULE Spec2Model ----
(***************************************************************************)
(* A model of core.py of smart-nlp-package: the tokenizer, the synonym     *)
(* expander, the similarity measure, the two tree walkers (deep_search and *)
(* _search_json), the relevance scorer and the ranked search of class NLP. *)
(*                                                                         *)
(* Text is a TLA+ string; Len, \o and SubSeq act on it as on a sequence of *)
(* characters.  The separator character U+2192 of the ranked-search paths  *)
(* is written ">" (one character that is not a word character and that no  *)
(* key, value or token of the model contains).                             *)
(*                                                                         *)
(* Python floats are modelled by exact rationals <<numerator,denominator>> *)
(* and the value _score_match returns, rounded to 2 decimals, by an        *)
(* integer number of hundredths.                                           *)
(***************************************************************************)
EXTENDS Integers, Sequences, FiniteSets, TLC

(***************************************************************************)
(* Exact rational arithmetic.                                              *)
(***************************************************************************)
Abs(n) == IF n < 0 THEN -n ELSE n

RECURSIVE GCD(_, _)
GCD(a, b) == IF b = 0 THEN a ELSE GCD(b, a % b)

Norm(r) ==
  LET g == GCD(Abs(r[1]), r[2])
  IN  <<r[1] \div g, r[2] \div g>>

Rat(n, d) == Norm(<<n, d>>)
RInt(n) == <<n, 1>>
RAdd(x, y) == Norm(<<x[1] * y[2] + y[1] * x[2], x[2] * y[2]>>)
RSub(x, y) == Norm(<<x[1] * y[2] - y[1] * x[2], x[2] * y[2]>>)
RMul(x, y) == Norm(<<x[1] * y[1], x[2] * y[2]>>)
RDivInt(x, n) == Norm(<<x[1], x[2] * n>>)
RLess(x, y) == x[1] * y[2] < y[1] * x[2]
RMax(x, y) == IF RLess(x, y) THEN y ELSE x

RECURSIVE RSum(_)
RSum(xs) == IF xs = <<>> THEN RInt(0) ELSE RAdd(Head(xs), RSum(Tail(xs)))

\* round(x, 2) of a non-negative x, as a number of hundredths: the nearest
\* hundredth, a tie going to the even one.
Round2(x) ==
  LET n == 100 * x[1]
      q == n \div x[2]
      r == n % x[2]
  IN  IF 2 * r > x[2] THEN q + 1
      ELSE IF 2 * r < x[2] THEN q
      ELSE IF q % 2 = 0 THEN q ELSE q + 1

(***************************************************************************)
(* Characters and strings.                                                 *)
(***************************************************************************)
UpperChars == "ABCDEFGHIJKLMNOPQRSTUVWXYZ"
LowerChars == "abcdefghijklmnopqrstuvwxyz"
DigitChars == "0123456789"

Chars(s) == {SubSeq(s, i, i) : i \in 1..Len(s)}

\* The characters the pattern \w matches.
WordChars == Chars(UpperChars) \cup Chars(LowerChars) \cup Chars(DigitChars) \cup {"_"}

LowerChar(c) ==
  IF c # "" /\ c \in Chars(UpperChars)
  THEN LET i == CHOOSE k \in 1..Len(UpperChars) : SubSeq(UpperChars, k, k) = c
       IN  SubSeq(LowerChars, i, i)
  ELSE c

\* str.lower(), halving the string
RECURSIVE Lower(_)
Lower(s) ==
  IF Len(s) <= 1 THEN LowerChar(s)
  ELSE Lower(SubSeq(s, 1, Len(s) \div 2)) \o Lower(SubSeq(s, Len(s) \div 2 + 1, Len(s)))

\* t in s
Contains(s, t) == \E i \in 0..(Len(s) - Len(t)) : SubSeq(s, i + 1, i + Len(t)) = t

\* s.find(t): the lowest 0-based offset of t in s, -1 when there is none.
Find(s, t) ==
  IF Contains(s, t)
  THEN CHOOSE i \in 0..(Len(s) - Len(t)) :
         /\ SubSeq(s, i + 1, i + Len(t)) = t
         /\ \A k \in 0..(i - 1) : SubSeq(s, k + 1, k + Len(t)) # t
  ELSE -1

\* sep.join(parts)
RECURSIVE Join(_, _)
Join(sep, parts) ==
  IF parts = <<>> THEN ""
  ELSE IF Len(parts) = 1 THEN parts[1]
  ELSE parts[1] \o sep \o Join(sep, Tail(parts))

\* str(i) of a natural number
RECURSIVE IntStr(_)
IntStr(n) ==
  IF n < 10 THEN SubSeq(DigitChars, n + 1, n + 1)
  ELSE IntStr(n \div 10) \o SubSeq(DigitChars, (n % 10) + 1, (n % 10) + 1)

(***************************************************************************)
(* tokenize(text): the lowercased text's maximal runs of word characters.  *)
(***************************************************************************)
IsWord(s, i) == i >= 1 /\ i <= Len(s) /\ SubSeq(s, i, i) \in WordChars

\* The k-th smallest element of a set of integers.
Nth(S, k) == CHOOSE i \in S : Cardinality({j \in S : j < i}) = k - 1

\* re.findall(r'\b\w+\b', s): a run starts where a word character follows
\* none and ends where none follows it.
WordsBetween(s, starts, ends) ==
  [k \in 1..Cardinality(starts) |-> SubSeq(s, Nth(starts, k), Nth(ends, k))]

FindWords(s) ==
  WordsBetween(s, {i \in 1..Len(s) : IsWord(s, i) /\ ~IsWord(s, i - 1)},
                  {i \in 1..Len(s) : IsWord(s, i) /\ ~IsWord(s, i + 1)})

tokenize(text) == FindWords(Lower(text))

(***************************************************************************)
(* fuzzy_ratio(a, b): difflib.SequenceMatcher(None, a, b).ratio() for b    *)
(* shorter than 200 characters (no element of b is then "popular").        *)
(***************************************************************************)
\* The length of the common run of a and b starting at a[i], b[j], inside
\* a[..ahi] and b[..bhi] (1-based, bounds inclusive).
RECURSIVE RunLen(_, _, _, _, _, _)
RunLen(a, b, i, j, ahi, bhi) ==
  IF i <= ahi /\ j <= bhi /\ SubSeq(a, i, i) = SubSeq(b, j, j)
  THEN 1 + RunLen(a, b, i + 1, j + 1, ahi, bhi)
  ELSE 0

\* The longest run that starts at a[i], over the starts in b[blo..bhi].
RowBest(a, b, i, ahi, blo, bhi) ==
  LET Max(S) == CHOOSE k \in S : \A k2 \in S : k2 <= k
  IN  Max({RunLen(a, b, i, j, ahi, bhi) : j \in blo..bhi})

\* find_longest_match: <<i, j, k>> with k maximal, then i minimal, then j
\* minimal; k = 0 when the windows share no character.
find_longest_match(a, b, alo, ahi, blo, bhi) ==
  LET Max(S) == CHOOSE k \in S : \A k2 \in S : k2 <= k
      Min(S) == CHOOSE k \in S : \A k2 \in S : k <= k2
      AtJ(rows, best, besti) ==
        <<besti, Min({j \in blo..bhi : RunLen(a, b, besti, j, ahi, bhi) = best}), best>>
      AtI(rows, best) == AtJ(rows, best, Min({i \in alo..ahi : rows[i] = best}))
      Longest(rows) == AtI(rows, Max({rows[i] : i \in alo..ahi}))
  IN  Longest([i \in alo..ahi |-> RowBest(a, b, i, ahi, blo, bhi)])

\* The total size of get_matching_blocks(): the longest match, then the same
\* to its left and to its right.
RECURSIVE MatchSize(_, _, _, _, _, _)
MatchSize(a, b, alo, ahi, blo, bhi) ==
  LET Blocks(m) ==
        IF m[3] = 0 THEN 0
        ELSE m[3] + MatchSize(a, b, alo, m[1] - 1, blo, m[2] - 1)
                  + MatchSize(a, b, m[1] + m[3], ahi, m[2] + m[3], bhi)
  IN  IF alo > ahi \/ blo > bhi THEN 0
      ELSE Blocks(find_longest_match(a, b, alo, ahi, blo, bhi))

fuzzy_ratio(a, b) ==
  IF Len(a) + Len(b) = 0 THEN RInt(1)
  ELSE Rat(2 * MatchSize(a, b, 1, Len(a), 1, Len(b)), Len(a) + Len(b))

(***************************************************************************)
(* The memory tree.  A node is a mapping (its items in insertion order, as *)
(* <<key, node>> pairs), a sequence, a string, an integer or None.         *)
(***************************************************************************)
Dict(items) == [t |-> "dict", items |-> items]
List(items) == [t |-> "list", items |-> items]
Str(s) == [t |-> "str", s |-> s]
Num(n) == [t |-> "int", n |-> n]
None == [t |-> "none"]

\* str(v) and repr(v) of a node (strings without quotes or escapes).
RECURSIVE PyRepr(_)
RECURSIVE ReprItems(_)
RECURSIVE ReprPairs(_)
ReprItems(items) ==
  IF items = <<>> THEN <<>> ELSE <<PyRepr(Head(items))>> \o ReprItems(Tail(items))
ReprPairs(items) ==
  IF items = <<>> THEN <<>>
  ELSE <<"'" \o Head(items)[1] \o "': " \o PyRepr(Head(items)[2])>> \o ReprPairs(Tail(items))
PyRepr(v) ==
  CASE v.t = "str" -> "'" \o v.s \o "'"
    [] v.t = "int" -> IntStr(v.n)
    [] v.t = "none" -> "None"
    [] v.t = "list" -> "[" \o Join(", ", ReprItems(v.items)) \o "]"
    [] v.t = "dict" -> "{" \o Join(", ", ReprPairs(v.items)) \o "}"

PyStr(v) == IF v.t = "str" THEN v.s ELSE PyRepr(v)

(***************************************************************************)
(* expand_tokens(tokens): list(set(tokens) | synonyms).  The order in      *)
(* which list() enumerates a set of strings is not fixed by the language   *)
(* (string hashes are salted per process): every order is a possible       *)
(* result.                                                                 *)
(***************************************************************************)
synonym_map ==
  [dob     |-> <<"date of birth", "birth", "born", "birthday">>,
   birth   |-> <<"dob", "date of birth", "born", "birthday">>,
   born    |-> <<"dob", "birth", "date of birth", "birthday">>,
   wife    |-> <<"spouse", "partner">>,
   husband |-> <<"spouse", "partner">>,
   money   |-> <<"worth", "income", "salary", "wealth">>,
   runs    |-> <<"score", "scored", "innings">>,
   value   |-> <<"worth", "valuation", "net worth">>,
   brand   |-> <<"company", "business">>]

Range(seq) == {seq[i] : i \in 1..Len(seq)}

\* expanded, were the synonyms left out.
ExpandedWithoutSynonyms(tokens) == Range(tokens)

expanded(tokens) ==
  Range(tokens) \cup
  UNION {Range(synonym_map[tok]) : tok \in Range(tokens) \cap DOMAIN synonym_map}

\* Sets of more than MaxPermute strings are enumerated in a rotation of one
\* order or of its reverse only (every pair of elements then still occurs in
\* both relative orders); smaller sets in every order.
MaxPermute == 4

RECURSIVE Perms(_)
Perms(S) ==
  IF S = {} THEN {<<>>}
  ELSE UNION {{<<e>> \o p : p \in Perms(S \ {e})} : e \in S}

RECURSIVE SetToSeq(_)
SetToSeq(S) ==
  IF S = {} THEN <<>>
  ELSE LET e == CHOOSE e \in S : TRUE IN <<e>> \o SetToSeq(S \ {e})

Reverse(seq) == [i \in 1..Len(seq) |-> seq[Len(seq) + 1 - i]]
Rotations(seq) ==
  {SubSeq(seq, k, Len(seq)) \o SubSeq(seq, 1, k - 1) : k \in 1..Len(seq)}

Orders(S) ==
  IF Cardinality(S) <= MaxPermute THEN Perms(S)
  ELSE Rotations(SetToSeq(S)) \cup Rotations(Reverse(SetToSeq(S)))

expand_tokens(tokens) == Orders(expanded(tokens))

(***************************************************************************)
(* NLP.deep_search(data, word, path): the first match, depth first, as     *)
(* <<dotted path, word>>; NotFound (Python's None) when there is none.     *)
(***************************************************************************)
NotFound == <<>>

\* RatioAbove, were a word also matched by its mere presence in the value.
RatioAboveOrPresent(a, b, n, d) == Contains(b, a) \/ RLess(Rat(n, d), fuzzy_ratio(a, b))

\* fuzzy_ratio(a, b) > n/d
RatioAbove(a, b, n, d) == RLess(Rat(n, d), fuzzy_ratio(a, b))

RECURSIVE deep_search(_, _, _)
RECURSIVE DeepDict(_, _, _, _)
RECURSIVE DeepList(_, _, _, _)

\* for k, v in data.items(), from the n-th item on
DeepDict(items, n, word, path) ==
  LET OrNext(res) == IF res # NotFound THEN res ELSE DeepDict(items, n + 1, word, path)
      Item(v, new_path) ==
        IF v.t = "str" /\ RatioAbove(word, v.s, 8, 10)
        THEN <<Join(".", new_path), word>>
        ELSE IF v.t = "list"
        THEN IF \E i \in 1..Len(v.items) :
                  v.items[i].t = "str" /\ RatioAbove(word, v.items[i].s, 8, 10)
             THEN <<Join(".", new_path), word>>
             ELSE DeepDict(items, n + 1, word, path)
        ELSE IF v.t = "dict"
        THEN OrNext(deep_search(v, word, new_path))
        ELSE DeepDict(items, n + 1, word, path)
  IN  IF n > Len(items) THEN NotFound
      ELSE Item(items[n][2], Append(path, items[n][1]))

\* for i, item in enumerate(data), from the n-th element on
DeepList(items, n, word, path) ==
  LET OrNext(res) == IF res # NotFound THEN res ELSE DeepList(items, n + 1, word, path)
  IN  IF n > Len(items) THEN NotFound
      ELSE OrNext(deep_search(items[n], word, Append(path, "[" \o IntStr(n - 1) \o "]")))

deep_search(data, word, path) ==
  IF data.t = "dict" THEN DeepDict(data.items, 1, word, path)
  ELSE IF data.t = "list" THEN DeepList(data.items, 1, word, path)
  ELSE NotFound

(***************************************************************************)
(* NLP.detect_commands(tokens) on self.memo: <<command, unfound>>, command *)
(* a function from paths to words.                                         *)
(***************************************************************************)
EmptyDict == [p \in {} |-> ""]
\* DictSet, were a path that is already in the mapping left alone.
DictSetKeepFirst(d, k, v) ==
  [p \in DOMAIN d \cup {k} |-> IF p \in DOMAIN d THEN d[p] ELSE v]

DictSet(d, k, v) == [p \in DOMAIN d \cup {k} |-> IF p = k THEN v ELSE d[p]]

RECURSIVE DetectLoop(_, _, _, _, _)
DetectLoop(memo_, tokens, n, command, unfound) ==
  LET Step(found) ==
        IF found # NotFound
        THEN DetectLoop(memo_, tokens, n + 1, DictSet(command, found[1], found[2]), unfound)
        ELSE DetectLoop(memo_, tokens, n + 1, command, Append(unfound, tokens[n]))
  IN  IF n > Len(tokens) THEN <<command, unfound>>
      ELSE Step(deep_search(memo_, tokens[n], <<>>))

detect_commands(memo_, tokens) == DetectLoop(memo_, tokens, 1, EmptyDict, <<>>)

(***************************************************************************)
(* NLP._extract_entities(data)                                             *)
(***************************************************************************)
HasKey(d, k) == d.t = "dict" /\ \E i \in 1..Len(d.items) : d.items[i][1] = k
Get(d, k) == d.items[CHOOSE i \in 1..Len(d.items) : d.items[i][1] = k][2]

_extract_entities(data) ==
  LET Keys(persons) == [i \in 1..Len(persons.items) |-> Lower(persons.items[i][1])]
  IN  IF HasKey(data, "info") /\ HasKey(Get(data, "info"), "persons")
      THEN Keys(Get(Get(data, "info"), "persons"))
      ELSE <<>>

(***************************************************************************)
(* NLP._search_json(d, tokens, focus_entity, path): the candidates, in the *)
(* order of the walk.  focus_entity = "" stands for None (both are falsy). *)
(***************************************************************************)
Sep == " > "

\* any(any(fuzzy_ratio(tok, w) > 0.8 for w in words) for tok in tokens)
AnyMatch(tokens, words) ==
  \E i \in 1..Len(tokens) : \E j \in 1..Len(words) : RatioAbove(tokens[i], words[j], 8, 10)

RECURSIVE _search_json(_, _, _, _)
RECURSIVE WalkDict(_, _, _, _, _)
RECURSIVE WalkList(_, _, _, _, _)

WalkDict(items, n, tokens, focus_entity, path) ==
  LET Item(k, v, new_path) ==
        IF /\ focus_entity # ""
           /\ ~Contains(Lower(new_path), focus_entity)
           /\ Contains(Lower(new_path), "persons")
        THEN <<>>
        ELSE (IF AnyMatch(tokens, tokenize(k)) THEN <<<<new_path, v>>>> ELSE <<>>)
             \o _search_json(v, tokens, focus_entity, new_path)
  IN  IF n > Len(items) THEN <<>>
      ELSE Item(items[n][1], items[n][2],
                IF path # "" THEN path \o Sep \o items[n][1] ELSE items[n][1])
           \o WalkDict(items, n + 1, tokens, focus_entity, path)

WalkList(items, n, tokens, focus_entity, path) ==
  IF n > Len(items) THEN <<>>
  ELSE _search_json(items[n], tokens, focus_entity, path \o "[" \o IntStr(n - 1) \o "]")
       \o WalkList(items, n + 1, tokens, focus_entity, path)

_search_json(d, tokens, focus_entity, path) ==
  IF d.t = "dict" THEN WalkDict(d.items, 1, tokens, focus_entity, path)
  ELSE IF d.t = "list" THEN WalkList(d.items, 1, tokens, focus_entity, path)
  ELSE IF d.t = "str" /\ AnyMatch(tokens, tokenize(d.s)) THEN <<<<path, d>>>>
  ELSE <<>>

(***************************************************************************)
(* NLP._score_match(val, tokens, path), term by term.  The score returned  *)
(* is a number of hundredths.                                              *)
(***************************************************************************)
RECURSIVE LowerStrs(_)
LowerStrs(items) ==
  IF items = <<>> THEN <<>> ELSE <<Lower(PyStr(Head(items)))>> \o LowerStrs(Tail(items))

Values(items) == [i \in 1..Len(items) |-> items[i][2]]

\* val_str
ValStr(val) ==
  CASE val.t = "str" -> Lower(val.s)
    [] val.t = "list" -> Join(" ", LowerStrs(val.items))
    [] val.t = "dict" -> Join(" ", LowerStrs(Values(val.items)))
    [] OTHER -> Lower(PyStr(val))

Combined(val, path) == Lower(path) \o " " \o ValStr(val)

\* 1: sum(1 for t in tokens if t in combined)
Overlap(tokens, combined) ==
  Cardinality({i \in 1..Len(tokens) : Contains(combined, tokens[i])})

\* 2: the mean of the ratios above 0.7, 0 when there is none
FuzzyAvg(tokens, combined) ==
  LET Mean(strong_fuzzy) ==
        IF strong_fuzzy # <<>> THEN RDivInt(RSum(strong_fuzzy), Len(strong_fuzzy))
        ELSE RInt(0)
      Strong(fuzzy_scores) == SelectSeq(fuzzy_scores, LAMBDA f : RLess(Rat(7, 10), f))
  IN  Mean(Strong([i \in 1..Len(tokens) |-> fuzzy_ratio(tokens[i], combined)]))

\* 3: max(0, 10 - avg / 40), avg the mean distance between the offsets of
\*    consecutive tokens (in the order of the token list) found in combined
Proximity(tokens, combined) ==
  LET Bonus(distances) ==
        RMax(RInt(0), RSub(RInt(10), RDivInt(RDivInt(RSum(distances), Len(distances)), 40)))
      Between(positions) ==
        IF Len(positions) > 1
        THEN Bonus([i \in 1..(Len(positions) - 1) |->
                      RInt(Abs(positions[i + 1] - positions[i]))])
        ELSE RInt(0)
      Offsets(present) == Between([i \in 1..Len(present) |-> Find(combined, present[i])])
  IN  Offsets(SelectSeq(tokens, LAMBDA t : Contains(combined, t)))

\* 4: max(0, 3 - len(val_str) / 150)
LengthScore(val_str) == RMax(RInt(0), RSub(RInt(3), Rat(Len(val_str), 150)))

\* 6: overlap * 3.5 + fuzzy_avg * 5 + proximity + length_score
Weighted(overlap, fuzzy_avg, proximity, length_score) ==
  RSum(<<RMul(RInt(overlap), Rat(7, 2)), RMul(fuzzy_avg, RInt(5)), proximity, length_score>>)

\* 5: overlap == 0 and fuzzy_avg < 0.5
Irrelevant(overlap, fuzzy_avg) == overlap = 0 /\ RLess(fuzzy_avg, Rat(1, 2))

\* _score_match, were step 5 (the irrelevance short-circuit) left out.
ScoreWithoutShortCircuit(val, tokens, path) ==
  LET Terms(val_str, combined) ==
        Round2(Weighted(Overlap(tokens, combined), FuzzyAvg(tokens, combined),
                        Proximity(tokens, combined), LengthScore(val_str)))
  IN  Terms(ValStr(val), Combined(val, path))

_score_match(val, tokens, path) ==
  LET Final(overlap, fuzzy_avg, proximity, length_score) ==
        IF Irrelevant(overlap, fuzzy_avg) THEN 0
        ELSE Round2(Weighted(overlap, fuzzy_avg, proximity, length_score))
      Terms(val_str, combined) ==
        Final(Overlap(tokens, combined), FuzzyAvg(tokens, combined),
              Proximity(tokens, combined), LengthScore(val_str))
  IN  Terms(ValStr(val), Combined(val, path))

(***************************************************************************)
(* NLP.smart_search(query, data), given the list expand_tokens returned.   *)
(***************************************************************************)
\* THRESHOLD = 3.0, in hundredths
THRESHOLD == 300

Sentinel == <<"not in memory", None>>

\* InsertSorted, were an element put before the elements of equal score (a
\* descending sort that is not stable).
RECURSIVE InsertBeforeEqual(_, _)
InsertBeforeEqual(sorted, e) ==
  IF sorted = <<>> THEN <<e>>
  ELSE IF Head(sorted)[1] > e[1] THEN <<Head(sorted)>> \o InsertBeforeEqual(Tail(sorted), e)
  ELSE <<e>> \o sorted

\* scored.sort(reverse=True, key=lambda x: x[0]): a stable sort, equal scores
\* keep their order.  Insert(sorted, e) puts e after the last element whose
\* score is not below e's.
RECURSIVE InsertSorted(_, _)
InsertSorted(sorted, e) ==
  IF sorted = <<>> THEN <<e>>
  ELSE IF Head(sorted)[1] >= e[1] THEN <<Head(sorted)>> \o InsertSorted(Tail(sorted), e)
  ELSE <<e>> \o sorted

RECURSIVE SortScored(_)
SortScored(scored) ==
  IF scored = <<>> THEN <<>>
  ELSE InsertSorted(SortScored(SubSeq(scored, 1, Len(scored) - 1)), scored[Len(scored)])

\* [(self._score_match(val, tokens, path), path, val) for path, val in matches]
Scored(matches, tokens) ==
  [i \in 1..Len(matches) |->
     <<_score_match(matches[i][2], tokens, matches[i][1]), matches[i][1], matches[i][2]>>]

\* StrongMatches, were the threshold not applied.
StrongMatchesUnfiltered(scored) == [i \in 1..Len(scored) |-> <<scored[i][2], scored[i][3]>>]

\* [(p, v) for s, p, v in scored if s >= THRESHOLD]
StrongMatches(scored) ==
  LET Pairs(strong) == [i \in 1..Len(strong) |-> <<strong[i][2], strong[i][3]>>]
  IN  Pairs(SelectSeq(scored, LAMBDA e : e[1] >= THRESHOLD))

smart_search(data_, tokens) ==
  LET Return(matches_, scored_, strong_matches) ==
        [matches |-> matches_,
         scored |-> scored_,
         result |-> IF strong_matches = <<>> THEN <<Sentinel>> ELSE strong_matches]
      Rank(matches_, scored_) == Return(matches_, scored_, StrongMatches(scored_))
      Score(matches_) == Rank(matches_, SortScored(Scored(matches_, tokens)))
  IN  Score(_search_json(data_, tokens, "", ""))

(***************************************************************************)
(* The inputs of the model.                                                *)
(***************************************************************************)
AliceTree ==
  Dict(<< <<"info", Dict(<< <<"persons", Dict(<<
    <<"alice", Dict(<< <<"dob", Str("1990-05-01")>> >>)>> >>)>> >>)>> >>)

PeopleTree ==
  Dict(<< <<"info", Dict(<< <<"persons", Dict(<<
    <<"Alice", Dict(<< <<"dob", Str("1990-05-01")>>, <<"wife", Str("Carol")>> >>)>>,
    <<"bob", Dict(<< <<"dob", Str("1985-01-01")>>, <<"age", Num(41)>> >>)>> >>)>> >>)>> >>)

EmptyTree == Dict(<<>>)

CommandMemo == Dict(<< <<"command", Str("turn on lights")>> >>)

LightsMemo ==
  Dict(<< <<"light", Str("kitchen")>>,
          <<"lights", Str("on")>>,
          <<"home", Dict(<< <<"switch", Str("lights")>>, <<"light", Str("")>> >>)>> >>)

RoomsMemo ==
  Dict(<< <<"rooms", List(<< Dict(<< <<"lamp", Str("lights")>> >>) >>)>>,
          <<"fans", List(<< Num(2), Str("cooler"), Str("fan") >>)>>,
          <<"mode", None>> >>)

CarsTree ==
  Dict(<< <<"a", Str("red big car")>>, <<"b", Str("red car big")>> >>)

MarkerTree == Dict(<< <<"not in memory", None>> >>)

\* {"x": {"dob": "1990-05-01"}, "y": {"dob": "1985-01-01"}, "dob": "2000"}
DatesTree ==
  Dict(<< <<"x", Dict(<< <<"dob", Str("1990-05-01")>> >>)>>,
          <<"y", Dict(<< <<"dob", Str("1985-01-01")>> >>)>>,
          <<"dob", Str("2000")>> >>)

\* self.memo: a dict (the constructor refuses anything else)
Memos ==
  {AliceTree, PeopleTree, EmptyTree, CommandMemo, LightsMemo, RoomsMemo, CarsTree, MarkerTree,
   DatesTree}

\* trees given to smart_search and _search_json that are not a dict
OtherData == {List(<< Str("Born free"), List(<< Str("dob"), Num(7) >>) >>), Str("red car")}

Queries ==
  {"when was alice born", "quantum entanglement", "dob", "lights", "red big car",
   "memory", "memori", "Alice's wife", ""}

\* the longest token sequence given to detect_commands
MaxTokens == 3
DetectWords == {"lights", "light", "fan", "on"}
DetectInputs == UNION {[1..n -> DetectWords] : n \in 0..MaxTokens}

\* the token lists given to _search_json and _score_match called directly
TokenLists == {<<"dob">>, <<"alice", "dob">>, <<"lights">>, <<"car", "red", "big">>, <<>>}

ScoreVals == {Str(""), Str("on"), Str("kitchen"), Str("red big car"), None,
              Dict(<< <<"dob", Str("1990-05-01")>> >>), List(<< Str("Lights"), Num(3) >>)}
ScorePaths == {"", "light", "home > light", "info > persons > alice"}

(***************************************************************************)
(* The state: the NLP object's memo, and the last call with what it        *)
(* returned.                                                               *)
(***************************************************************************)
VARIABLES
  memo,      \* self.memo
  op,        \* the method called: "none" before any call
  query,     \* smart_search: the query
  data,      \* smart_search, _search_json: the tree; _score_match: val
  tokens,    \* the token list: detect_commands' and the walkers' argument,
             \* in smart_search the list expand_tokens returned
  focus,     \* _search_json: focus_entity ("" for None)
  path,      \* _score_match: path
  matches,   \* what _search_json returned
  scored,    \* smart_search: scored, after the sort
  result,    \* what smart_search returned
  command,   \* detect_commands: the mapping returned
  unfound,   \* detect_commands: the list returned
  score      \* what _score_match returned

vars == <<memo, op, query, data, tokens, focus, path, matches, scored, result,
          command, unfound, score>>

\* NLP(memo)
Init ==
  /\ memo \in Memos
  /\ op = "none"
  /\ query = ""
  /\ data = None
  /\ tokens = <<>>
  /\ focus = ""
  /\ path = ""
  /\ matches = <<>>
  /\ scored = <<>>
  /\ result = <<>>
  /\ command = EmptyDict
  /\ unfound = <<>>
  /\ score = 0

\* nlp.detect_commands(toks)
DetectCommands ==
  /\ op = "none"
  /\ \E toks \in DetectInputs :
       \E r \in {detect_commands(memo, toks)} :
         /\ tokens' = toks
         /\ command' = r[1]
         /\ unfound' = r[2]
  /\ op' = "detect_commands"
  /\ UNCHANGED <<memo, query, data, focus, path, matches, scored, result, score>>

\* nlp.smart_search(q, d)
SmartSearch ==
  /\ op = "none"
  /\ \E q \in Queries, d \in {memo} \cup OtherData :
       \E toks \in expand_tokens(tokenize(q)) :
         \E r \in {smart_search(d, toks)} :
           /\ query' = q
           /\ data' = d
           /\ tokens' = toks
           /\ matches' = r.matches
           /\ scored' = r.scored
           /\ result' = r.result
  /\ op' = "smart_search"
  /\ UNCHANGED <<memo, focus, path, command, unfound, score>>

\* nlp._search_json(d, toks, focus_entity), focus_entity None or one of
\* nlp._extract_entities(d)
SearchJson ==
  /\ op = "none"
  /\ \E d \in {memo} \cup OtherData, toks \in TokenLists :
       \E f \in {""} \cup Range(_extract_entities(d)) :
         /\ data' = d
         /\ tokens' = toks
         /\ focus' = f
         /\ matches' = _search_json(d, toks, f, "")
  /\ op' = "_search_json"
  /\ UNCHANGED <<memo, query, path, scored, result, command, unfound, score>>

\* nlp._score_match(val, toks, p)
ScoreMatch ==
  /\ op = "none"
  /\ \E val \in ScoreVals, toks \in TokenLists, p \in ScorePaths :
       /\ data' = val
       /\ tokens' = toks
       /\ path' = p
       /\ score' = _score_match(val, toks, p)
  /\ op' = "_score_match"
  /\ UNCHANGED <<memo, query, focus, matches, scored, result, command, unfound>>

Next ==
  \/ DetectCommands
  \/ SmartSearch
  \/ SearchJson
  \/ ScoreMatch

Spec == Init /\ [][Next]_vars

(***************************************************************************)
(* The properties.                                                         *)
(***************************************************************************)
ScoreOf(m) == _score_match(m[2], tokens, m[1])
Pair(e) == <<e[2], e[3]>>

\* C1: every pair smart_search returns, other than the sentinel pair, is a
\* candidate found by the walk whose score is at least 3.0.
C1_OnlyStrongCandidates ==
  op = "smart_search" =>
    \A i \in 1..Len(result) :
      result[i] # Sentinel =>
        \E k \in 1..Len(matches) :
          matches[k] = result[i] /\ ScoreOf(matches[k]) >= THRESHOLD

\* A search that returned candidates and left a candidate of the walk out.
C1_Witness ==
  /\ op = "smart_search"
  /\ result # <<Sentinel>>
  /\ \E k \in 1..Len(matches) :
       ScoreOf(matches[k]) < THRESHOLD /\ matches[k] \notin Range(result)

\* C2: smart_search never returns an empty list; it returns exactly the
\* sentinel pair when no candidate scores at least 3.0, and the sentinel pair
\* is not in what it returns when some candidate does.
C2_SentinelIffNothingStrong ==
  op = "smart_search" =>
    /\ result # <<>>
    /\ (\A k \in 1..Len(matches) : ScoreOf(matches[k]) < THRESHOLD)
         => result = <<Sentinel>>
    /\ (\E k \in 1..Len(matches) : ScoreOf(matches[k]) >= THRESHOLD)
         => Sentinel \notin Range(result)

\* C3: the pairs returned are in descending order of score, and candidates of
\* equal score are in the order in which the walk found them.
SameScore(seq, sc) == SelectSeq(seq, LAMBDA e : e[1] = sc)
C3_RankedStable ==
  op = "smart_search" /\ result # <<Sentinel>> =>
    /\ Len(result) <= Len(scored)
    /\ \A i \in 1..Len(result) : result[i] = Pair(scored[i]) /\ scored[i][1] >= THRESHOLD
    /\ \A i \in 1..(Len(scored) - 1) : scored[i][1] >= scored[i + 1][1]
    /\ \A i \in 1..Len(scored) :
         SameScore(scored, scored[i][1]) = SameScore(Scored(matches, tokens), scored[i][1])

\* A search that returned two different candidates of equal score, and a
\* candidate ahead of one the walk found before it.
C3_Witness ==
  /\ op = "smart_search"
  /\ \E i, j \in 1..Len(result) :
       i < j /\ scored[i][1] = scored[j][1] /\ result[i] # result[j]
  /\ \E i, j \in 1..Len(matches) :
       i < j /\ ScoreOf(matches[i]) < ScoreOf(matches[j]) /\ ScoreOf(matches[i]) >= THRESHOLD

DobPair == <<"info > persons > alice > dob", Str("1990-05-01")>>
C5_AliceBorn ==
  op = "smart_search" /\ query = "when was alice born" /\ data = AliceTree =>
    /\ {"dob", "birth", "born", "birthday"} \subseteq Range(tokens)
    /\ DobPair \in Range(matches)
    /\ ScoreOf(DobPair) > THRESHOLD
    /\ DobPair \in Range(result)
    /\ result # <<Sentinel>>

C5_Witness ==
  op = "smart_search" /\ query = "when was alice born" /\ data = AliceTree

\* C6: the unfound list is the subsequence of the tokens deep_search finds
\* nothing for; the keys of the mapping are the paths deep_search finds for
\* the other tokens; the value at a path is the last token found at it.
FoundAt(w) == deep_search(memo, w, <<>>)
LastAt(p) ==
  CHOOSE i \in 1..Len(tokens) :
    /\ FoundAt(tokens[i]) # NotFound /\ FoundAt(tokens[i])[1] = p
    /\ \A j \in (i + 1)..Len(tokens) :
         FoundAt(tokens[j]) = NotFound \/ FoundAt(tokens[j])[1] # p
C6_DetectCommands ==
  op = "detect_commands" =>
    /\ unfound = SelectSeq(tokens, LAMBDA w : FoundAt(w) = NotFound)
    /\ DOMAIN command =
         {FoundAt(tokens[i])[1] : i \in {k \in 1..Len(tokens) : FoundAt(tokens[k]) # NotFound}}
    /\ \A p \in DOMAIN command : command[p] = tokens[LastAt(p)]

\* A call in which a token that was found is in neither output.
C6_Witness ==
  /\ op = "detect_commands"
  /\ \E i \in 1..Len(tokens) :
       /\ FoundAt(tokens[i]) # NotFound
       /\ tokens[i] \notin Range(unfound)
       /\ \A p \in DOMAIN command : command[p] # tokens[i]

\* C7: if a mapping anywhere in the memo (through any nesting of mappings and
\* sequences) has a string value, or a list value with a string element, whose
\* similarity to a token is above 0.8, deep_search finds the token and
\* detect_commands does not report it unfound.
RECURSIVE MatchAnywhere(_, _)
MatchAnywhere(node, w) ==
  IF node.t = "dict"
  THEN \E i \in 1..Len(node.items) :
         \/ node.items[i][2].t = "str" /\ RatioAbove(w, node.items[i][2].s, 8, 10)
         \/ /\ node.items[i][2].t = "list"
            /\ \E j \in 1..Len(node.items[i][2].items) :
                 /\ node.items[i][2].items[j].t = "str"
                 /\ RatioAbove(w, node.items[i][2].items[j].s, 8, 10)
         \/ MatchAnywhere(node.items[i][2], w)
  ELSE IF node.t = "list"
  THEN \E i \in 1..Len(node.items) : MatchAnywhere(node.items[i], w)
  ELSE FALSE
C7_DeepSearchWholeTree ==
  op = "detect_commands" =>
    \A i \in 1..Len(tokens) :
      MatchAnywhere(memo, tokens[i]) =>
        FoundAt(tokens[i]) # NotFound /\ tokens[i] \notin Range(unfound)

\* C8: walking {"info": {"persons": {...}}} with the focus entity set to the
\* lowercase name of a person, _search_json returns no candidate of another
\* person's record and returns the candidates of that person's own record.
StartsWith(s, prefix) == Len(s) >= Len(prefix) /\ SubSeq(s, 1, Len(prefix)) = prefix
PersonPath(name) == "info" \o Sep \o "persons" \o Sep \o name
C8_FocusKeepsOwnRecord ==
  op = "_search_json" /\ focus # "" =>
    \A i \in 1..Len(Get(Get(data, "info"), "persons").items) :
      LET person == Get(Get(data, "info"), "persons").items[i]
      IN  IF Lower(person[1]) = focus
          THEN Range(_search_json(person[2], tokens, "", PersonPath(person[1])))
                 \subseteq Range(matches)
          ELSE \A k \in 1..Len(matches) :
                 ~StartsWith(matches[k][1], PersonPath(person[1]) \o Sep)

\* C9, as the spec has it: with no token in the combined text and a fuzzy
\* contribution below 0.5 the score is 0 and the candidate is not in what
\* smart_search returns; otherwise the score is
\* overlap * 3.5 + fuzzy * 5 + proximity + length penalty, and not negative.
TermsOf(val, p) ==
  <<Overlap(tokens, Combined(val, p)), FuzzyAvg(tokens, Combined(val, p)),
    Proximity(tokens, Combined(val, p)), LengthScore(ValStr(val))>>
ShortCircuits(t) == t[1] = 0 /\ RLess(t[2], Rat(1, 2))
SumOf(t) == Weighted(t[1], t[2], t[3], t[4])
\* sc hundredths is exactly the rational x
IsExactly(sc, x) == sc * x[2] = 100 * x[1]
\* sc hundredths is a nearest hundredth to the rational x
IsRounded(sc, x) == 2 * Abs(100 * x[1] - sc * x[2]) <= x[2]
C9_ScoreIsTheSum ==
  /\ op = "_score_match" =>
       IF ShortCircuits(TermsOf(data, path)) THEN score = 0
       ELSE IsExactly(score, SumOf(TermsOf(data, path))) /\ score >= 0
  /\ op = "smart_search" =>
       \A k \in 1..Len(matches) :
         ShortCircuits(TermsOf(matches[k][2], matches[k][1]))
           => matches[k] \notin Range(result)

\* C9, amended: with no token in the combined text and a fuzzy contribution
\* below 0.5 the score is 0, whatever the other terms, and smart_search
\* returns the candidate only if it is the sentinel pair itself; otherwise the
\* score is overlap * 3.5 + fuzzy * 5 + proximity + length penalty rounded to
\* 2 decimals, and not negative.
C9_ScoreIsTheRoundedSum ==
  /\ op = "_score_match" =>
       IF ShortCircuits(TermsOf(data, path)) THEN score = 0
       ELSE IsRounded(score, SumOf(TermsOf(data, path))) /\ score >= 0
  /\ op = "smart_search" =>
       \A k \in 1..Len(matches) :
         ShortCircuits(TermsOf(matches[k][2], matches[k][1]))
           => /\ ScoreOf(matches[k]) = 0
              /\ matches[k] \in Range(result) => matches[k] = Sentinel

\* A score of 0 where the length penalty alone is 3.
C9_Witness ==
  /\ op = "_score_match"
  /\ ShortCircuits(TermsOf(data, path))
  /\ LengthScore(ValStr(data)) = RInt(3)
  /\ tokens # <<>>
  /\ score = 0

\* C10: what smart_search returns does not depend on the order in which the
\* expanded token set is enumerated.
C10_OrderIndependent ==
  op = "smart_search" =>
    \A other \in expand_tokens(tokenize(query)) :
      smart_search(data, other).result = result

====
